---- MODULE Spec2Model ----
(***************************************************************************)
(* Model of the key management and signing core of ontology-ts-sdk:        *)
(*   - the SignatureScheme registry (src/src/crypto/SignatureScheme.ts),   *)
(*   - PrivateKey: random, getPublicKey, encrypt, decrypt, sign            *)
(*     (src/unnamed/part_000, the PrivateKey class),                       *)
(*   - RestClient.sendRawTransaction, concatParams and                     *)
(*     TxSender.sendTxWithSocket (src/src/network/rest/restClient.ts).     *)
(* Objects are referred to by identity: a SignatureScheme by its position  *)
(* in SignatureScheme.values (every constructed scheme is pushed there),   *)
(* a PrivateKey by its position in heap.  What PrivateKey calls in Key.ts, *)
(* KeyType.ts, scrypt.ts and consts.ts is modelled from the specification  *)
(* (sections 3, 4.4, 4.5).                                                 *)
(***************************************************************************)
EXTENDS Integers, Sequences, FiniteSets, TLC

VARIABLES values, heap, origin, last, socket, request

vars == <<values, heap, origin, last, socket, request>>

(***************************************************************************)
(* Bounds of the model.                                                    *)
(***************************************************************************)
\* PrivateKey objects alive at once
MaxKeys == 3
\* SignatureScheme objects constructed after the static initialisers
MaxExtra == 1
\* PrivateKey objects alive at once where every argument of sign is explored
MaxSignKeys == 1
\* message and error events delivered to one socket
MaxEvents == 3

(***************************************************************************)
(* SignatureScheme: the static records, in the order of their initialisers *)
(***************************************************************************)
StaticRecords ==
    << [label |-> "ECDSAwithSHA224",    hex |-> 0,  labelJWS |-> "ES224"],
       [label |-> "ECDSAwithSHA256",    hex |-> 1,  labelJWS |-> "ES256"],
       [label |-> "ECDSAwithSHA384",    hex |-> 2,  labelJWS |-> "ES384"],
       [label |-> "ECDSAwithSHA512",    hex |-> 3,  labelJWS |-> "ES512"],
       [label |-> "ECDSAwithSHA3-224",  hex |-> 4,  labelJWS |-> "ES3-224"],
       [label |-> "ECDSAwithSHA3-256",  hex |-> 5,  labelJWS |-> "ES3-256"],
       [label |-> "ECDSAwithSHA3-384",  hex |-> 6,  labelJWS |-> "ES3-384"],
       [label |-> "ECDSAwithSHA3-512",  hex |-> 7,  labelJWS |-> "ES3-512"],
       [label |-> "ECDSAwithRIPEMD160", hex |-> 8,  labelJWS |-> "ER160"],
       [label |-> "SM2withSM3",         hex |-> 9,  labelJWS |-> "SM"],
       [label |-> "EDDSAwithSHA512",    hex |-> 10, labelJWS |-> "EDS512"] >>

\* The static members: each names the object its initialiser constructed,
\* that is, the position at which the constructor pushed it.
ECDSAwithSHA224 == 1
ECDSAwithSHA256 == 2
ECDSAwithSHA384 == 3
ECDSAwithSHA512 == 4
ECDSAwithSHA3_224 == 5
ECDSAwithSHA3_256 == 6
ECDSAwithSHA3_384 == 7
ECDSAwithSHA3_512 == 8
ECDSAwithRIPEMD160 == 9
SM2withSM3 == 10
EDDSAwithSHA512 == 11

\* "no scheme": what find() returns as undefined, and an omitted argument
Undefined == 0

EnumNotFound == "Enum value not found"

\* constructor(label, hex, labelJWS): sets the three fields and pushes the
\* new object onto SignatureScheme.values.
constructor(vals, label, hex, labelJWS) ==
    Append(vals, [label |-> label, hex |-> hex, labelJWS |-> labelJWS])

\* SignatureScheme.values after the class's static initialisers have run:
\* the empty array, then one constructor call per static member, in order.
RECURSIVE StaticInit(_)
StaticInit(n) ==
    IF n = 0 THEN <<>>
    ELSE constructor(StaticInit(n - 1), StaticRecords[n].label,
                     StaticRecords[n].hex, StaticRecords[n].labelJWS)

StaticValues == StaticInit(Len(StaticRecords))

\* Array.prototype.find over the positions whose element satisfies the
\* predicate: the first of them, or undefined when there is none.
Find(matching) ==
    IF matching = {} THEN Undefined
    ELSE CHOOSE i \in matching : \A j \in matching : i <= j

\* "if (item === undefined) throw new Error('Enum value not found')"
Found(item) ==
    IF item = Undefined
    THEN [status |-> EnumNotFound, ret |-> Undefined]
    ELSE [status |-> "ok", ret |-> item]

\* Variant of fromHex: the first record as a default instead of the throw.
fromHexOrFirst(vals, hex) ==
    LET item == Find({i \in 1..Len(vals) : vals[i].hex = hex})
    IN  [status |-> "ok", ret |-> IF item = Undefined THEN 1 ELSE item]

fromHex(vals, hex) ==
    Found(Find({i \in 1..Len(vals) : vals[i].hex = hex}))

\* Variant of fromLabel: the last matching record instead of the first.
fromLabelLast(vals, label) ==
    LET matching == {i \in 1..Len(vals) : vals[i].label = label}
    IN  Found(IF matching = {} THEN Undefined
              ELSE CHOOSE i \in matching : \A j \in matching : j <= i)

fromLabel(vals, label) ==
    Found(Find({i \in 1..Len(vals) : vals[i].label = label}))

fromLabelJWS(vals, label) ==
    Found(Find({i \in 1..Len(vals) : vals[i].labelJWS = label}))

(***************************************************************************)
(* KeyType, KeyParameters and the hash of a scheme (KeyType.ts, Key.ts:    *)
(* modelled from sections 3 and 4.4 of the specification).                 *)
(***************************************************************************)
\* The closed enumeration of section 3.
KeyTypes == {"ECDSA", "EDDSA", "SM2"}

\* A KeyType object that is none of the three static members.
OtherKeyType == "OTHER"

\* The curves section 3 names, by preset.
Curves == {"p256", "ed25519", "sm2p256v1"}

\* "Exactly one KeyType is compatible with each scheme": the static table.
\* A scheme that is none of the static members requires no KeyType.
RequiredKeyType(schema) ==
    IF schema = SM2withSM3 THEN "SM2"
    ELSE IF schema = EDDSAwithSHA512 THEN "EDDSA"
    ELSE IF schema \in ECDSAwithSHA224..ECDSAwithRIPEMD160 THEN "ECDSA"
    ELSE "none"

\* KeyType.defaultSchema: "the KeyType's configured default scheme".
defaultSchema(algorithm) ==
    IF algorithm = "SM2" THEN SM2withSM3
    ELSE IF algorithm = "EDDSA" THEN EDDSAwithSHA512
    ELSE ECDSAwithSHA256

\* Key.isSchemaSupported: the scheme's required KeyType is the key's.
isSchemaSupported(k, schema) == RequiredKeyType(schema) = k.algorithm

\* Key.computeHash: the scheme's hash function applied to the decoded
\* message; a digest is the pair of the function and what it was applied to.
HashFunction(schema) ==
    CASE schema = ECDSAwithSHA224 -> "SHA224"
      [] schema = ECDSAwithSHA256 -> "SHA256"
      [] schema = ECDSAwithSHA384 -> "SHA384"
      [] schema = ECDSAwithSHA512 -> "SHA512"
      [] schema = ECDSAwithSHA3_224 -> "SHA3-224"
      [] schema = ECDSAwithSHA3_256 -> "SHA3-256"
      [] schema = ECDSAwithSHA3_384 -> "SHA3-384"
      [] schema = ECDSAwithSHA3_512 -> "SHA3-512"
      [] schema = ECDSAwithRIPEMD160 -> "RIPEMD160"
      [] schema = SM2withSM3 -> "SM3"
      [] schema = EDDSAwithSHA512 -> "SHA512"
      [] OTHER -> "none"

computeHash(msg, schema) == [fn |-> HashFunction(schema), msg |-> msg]

\* DEFAULT_ALGORITHM of consts.ts: the default key type and parameters.
DefaultAlgorithm == [algorithm |-> "ECDSA", parameters |-> "p256"]

(***************************************************************************)
(* Values.  A key string is modelled by what it holds: a plaintext scalar, *)
(* or a ciphertext (the encrypted scalar and the public-key anchor).       *)
(***************************************************************************)
\* the block a scalar is encrypted in
Block == 0..2

PlainKey(b) == [enc |-> FALSE, body |-> b, anchor |-> 0]

NoKey == [key |-> PlainKey(0), algorithm |-> "", parameters |-> ""]

NoPub == [key |-> 0, algorithm |-> "", parameters |-> ""]

UnsupportedSchema == "Unsupported signature schema."

SchemaMismatch == "Signature schema does not match key type."

\* ERROR_CODE.Decrypto_ERROR, which checkDecrypted throws
DecryptoError == "Decrypto_ERROR"

(***************************************************************************)
(* The elliptic / sm.js calls, by what they compute.                       *)
(***************************************************************************)
\* The public point of a scalar on a curve: the curve's generator times
\* the scalar (one to one in the scalar, for each curve).
Generator(preset) ==
    CASE preset = "p256" -> 2
      [] preset = "ed25519" -> 3
      [] OTHER -> 5

PublicPoint(preset, b) == (b + 1) * Generator(preset)

\* The byte length of a curve's scalars (r, s of a signature).
ScalarBytes(preset) == 32

(***************************************************************************)
(* PrivateKey.getPublicKey and the three derivations                       *)
(***************************************************************************)
getEcDSAPublicKey(k) ==
    [key |-> PublicPoint(k.parameters, k.key.body),
     algorithm |-> k.algorithm, parameters |-> k.parameters]

getEdDSAPublicKey(k) ==
    [key |-> PublicPoint(k.parameters, k.key.body),
     algorithm |-> k.algorithm, parameters |-> k.parameters]

getSM2PublicKey(k) ==
    [key |-> PublicPoint("sm2p256v1", k.key.body),
     algorithm |-> k.algorithm, parameters |-> k.parameters]

\* Variant of getPublicKey: the ECDSA derivation as the default case instead
\* of the throw.
getPublicKeyAnyType(k) ==
    CASE k.algorithm = "EDDSA" -> [status |-> "ok", pub |-> getEdDSAPublicKey(k)]
      [] k.algorithm = "SM2" -> [status |-> "ok", pub |-> getSM2PublicKey(k)]
      [] OTHER -> [status |-> "ok", pub |-> getEcDSAPublicKey(k)]

getPublicKey(k) ==
    CASE k.algorithm = "ECDSA" -> [status |-> "ok", pub |-> getEcDSAPublicKey(k)]
      [] k.algorithm = "EDDSA" -> [status |-> "ok", pub |-> getEdDSAPublicKey(k)]
      [] k.algorithm = "SM2" -> [status |-> "ok", pub |-> getSM2PublicKey(k)]
      [] OTHER -> [status |-> UnsupportedSchema, pub |-> NoPub]

(***************************************************************************)
(* scrypt.ts (modelled from section 4.5): the symmetric key derived from   *)
(* the passphrase, the cipher, and the anchor check.                       *)
(***************************************************************************)
\* the passphrases of test/scrypt.test.ts
Passphrases == {"123456", "1234567"}

\* scrypt: a different passphrase derives a different symmetric key
DerivedKey(keyphrase) == IF keyphrase = "123456" THEN 1 ELSE 2

scryptEncrypt(privateKey, publicKey, keyphrase) ==
    [enc |-> TRUE,
     body |-> (privateKey.body + DerivedKey(keyphrase)) % Cardinality(Block),
     anchor |-> publicKey]

scryptDecrypt(encrypted, keyphrase) ==
    PlainKey((encrypted.body + Cardinality(Block) - DerivedKey(keyphrase))
                % Cardinality(Block))

\* checkDecrypted(encryptedKey, publicKey): TRUE unless it throws
checkDecrypted(encryptedKey, publicKey) == encryptedKey.anchor = publicKey

(***************************************************************************)
(* PrivateKey.encrypt / PrivateKey.decrypt                                 *)
(***************************************************************************)
\* In the results of encrypt, decrypt and sign, self is the receiver as the
\* call leaves it: no method of PrivateKey assigns to a field of this.

\* Variant of encrypt: this.key passed as the anchor instead of the derived
\* public key.
encryptAnchoredToPrivate(k, keyphrase) ==
    LET pk == getPublicKey(k)
    IN  IF pk.status # "ok"
        THEN [status |-> pk.status, key |-> NoKey, self |-> k,
              trace |-> <<"getPublicKey">>]
        ELSE [status |-> "ok", self |-> k,
              key |-> [key |-> scryptEncrypt(k.key, k.key.body, keyphrase),
                       algorithm |-> k.algorithm,
                       parameters |-> k.parameters],
              trace |-> <<"getPublicKey", "scrypt.encrypt", "new PrivateKey">>]

\* Variant of encrypt: the ciphertext stored in this.key and this returned.
encryptInPlace(k, keyphrase) ==
    LET pk == getPublicKey(k)
        encrypted == [key |-> scryptEncrypt(k.key, pk.pub.key, keyphrase),
                      algorithm |-> k.algorithm, parameters |-> k.parameters]
    IN  IF pk.status # "ok"
        THEN [status |-> pk.status, key |-> NoKey, self |-> k,
              trace |-> <<"getPublicKey">>]
        ELSE [status |-> "ok", self |-> encrypted, key |-> encrypted,
              trace |-> <<"getPublicKey", "scrypt.encrypt">>]

\* encrypt(keyphrase): the receiver's key encrypted, anchored to the public
\* key derived from the receiver, in a new PrivateKey with the receiver's
\* algorithm and parameters.  getPublicKey's error propagates.
encrypt(k, keyphrase) ==
    LET pk == getPublicKey(k)
    IN  IF pk.status # "ok"
        THEN [status |-> pk.status, key |-> NoKey, self |-> k,
              trace |-> <<"getPublicKey">>]
        ELSE [status |-> "ok", self |-> k,
              key |-> [key |-> scryptEncrypt(k.key, pk.pub.key, keyphrase),
                       algorithm |-> k.algorithm,
                       parameters |-> k.parameters],
              trace |-> <<"getPublicKey", "scrypt.encrypt", "new PrivateKey">>]

\* Variant of decrypt: without the checkDecrypted line.
decryptUnchecked(k, keyphrase) ==
    LET decrypted == scryptDecrypt(k.key, keyphrase)
        decryptedKey == [key |-> decrypted, algorithm |-> k.algorithm,
                         parameters |-> k.parameters]
    IN  [status |-> "ok", key |-> decryptedKey, self |-> k, checked |-> <<>>,
         trace |-> <<"scrypt.decrypt", "new PrivateKey">>]

\* Variant of decrypt: what checkDecrypted throws is caught and dropped.
decryptCheckSwallowed(k, keyphrase) ==
    LET decrypted == scryptDecrypt(k.key, keyphrase)
        decryptedKey == [key |-> decrypted, algorithm |-> k.algorithm,
                         parameters |-> k.parameters]
        pk == getPublicKey(decryptedKey)
    IN  IF pk.status # "ok"
        THEN [status |-> pk.status, key |-> NoKey, self |-> k,
              checked |-> <<>>,
              trace |-> <<"scrypt.decrypt", "new PrivateKey", "getPublicKey">>]
        ELSE [status |-> "ok", key |-> decryptedKey, self |-> k,
              checked |-> <<k.key, pk.pub.key>>,
              trace |-> <<"scrypt.decrypt", "new PrivateKey", "getPublicKey",
                          "checkDecrypted">>]

\* decrypt(keyphrase): the candidate plaintext in a new PrivateKey, whose
\* derived public key checkDecrypted compares with the receiver's anchor;
\* the candidate is returned only when that did not throw.
decrypt(k, keyphrase) ==
    LET decrypted == scryptDecrypt(k.key, keyphrase)
        decryptedKey == [key |-> decrypted, algorithm |-> k.algorithm,
                         parameters |-> k.parameters]
        pk == getPublicKey(decryptedKey)
    IN  IF pk.status # "ok"
        THEN [status |-> pk.status, key |-> NoKey, self |-> k,
              checked |-> <<>>,
              trace |-> <<"scrypt.decrypt", "new PrivateKey", "getPublicKey">>]
        ELSE IF ~checkDecrypted(k.key, pk.pub.key)
        THEN [status |-> DecryptoError, key |-> NoKey, self |-> k,
              checked |-> <<k.key, pk.pub.key>>,
              trace |-> <<"scrypt.decrypt", "new PrivateKey", "getPublicKey",
                          "checkDecrypted">>]
        ELSE [status |-> "ok", key |-> decryptedKey, self |-> k,
              checked |-> <<k.key, pk.pub.key>>,
              trace |-> <<"scrypt.decrypt", "new PrivateKey", "getPublicKey",
                          "checkDecrypted">>]

\* PrivateKey.random(keyType?, parameters?): 32 random bytes under the given
\* or the default key type and parameters.
random(keyType, parameters, bytes) ==
    [key |-> PlainKey(bytes),
     algorithm |-> IF keyType = "undefined"
                   THEN DefaultAlgorithm.algorithm ELSE keyType,
     parameters |-> IF parameters = "undefined"
                    THEN DefaultAlgorithm.parameters ELSE parameters]

(***************************************************************************)
(* Signing                                                                 *)
(***************************************************************************)
\* Buffer / string encodings: a byte is a number, a hex string the sequence
\* of its digits, two per byte.
Zeros(n) == [i \in 1..n |-> 0]

Hex(bytes) ==
    [i \in 1..(2 * Len(bytes)) |->
        IF i % 2 = 1 THEN bytes[(i + 1) \div 2] \div 16
        ELSE bytes[i \div 2] % 16]

TooLong == "byte array longer than desired length"

\* BN.toArrayLike(Buffer, 'be', length): the number's big-endian bytes,
\* zero-padded on the left to length; it throws when they do not fit.
toArrayLike(n, length) ==
    IF Len(n) > length
    THEN [status |-> TooLong, bytes |-> <<>>]
    ELSE [status |-> "ok", bytes |-> Zeros(length - Len(n)) \o n]

\* DEFAULT_SM2_ID of consts.ts, as character codes
DefaultSM2Id == <<49, 50, 51, 52, 53, 54, 55, 56,
                  49, 50, 51, 52, 53, 54, 55, 56>>

\* r and s are what the library's sign() returned, as big-endian bytes
\* without leading zeros.
\* Variant of computeEcDSASignature: r and s at their own length.
computeEcDSASignatureUnpadded(k, hash, r, s) ==
    [status |-> "ok", sig |-> Hex(r \o s), signer |-> "ECDSA"]

computeEcDSASignature(k, hash, r, s) ==
    LET rb == toArrayLike(r, 32)
        sb == toArrayLike(s, 32)
    IN  IF rb.status # "ok" THEN [status |-> rb.status, sig |-> <<>>, signer |-> "ECDSA"]
        ELSE IF sb.status # "ok" THEN [status |-> sb.status, sig |-> <<>>, signer |-> "ECDSA"]
        ELSE [status |-> "ok", sig |-> Hex(rb.bytes \o sb.bytes), signer |-> "ECDSA"]

computeEdDSASignature(k, hash, r, s) ==
    LET rb == toArrayLike(r, 32)
        sb == toArrayLike(s, 32)
    IN  IF rb.status # "ok" THEN [status |-> rb.status, sig |-> <<>>, signer |-> "EDDSA"]
        ELSE IF sb.status # "ok" THEN [status |-> sb.status, sig |-> <<>>, signer |-> "EDDSA"]
        ELSE [status |-> "ok", sig |-> Hex(rb.bytes \o sb.bytes), signer |-> "EDDSA"]

\* str2hexstr(id + '\0') + signed.r + signed.s: r and s as they come
computeSM2Signature(k, hash, r, s) ==
    [status |-> "ok",
     sig |-> Hex(DefaultSM2Id \o <<0>>) \o Hex(r) \o Hex(s),
     signer |-> "SM2"]

\* Variant of computeSignature: without the case of ECDSAwithRIPEMD160.
computeSignatureEightCases(k, hash, schema, r, s) ==
    CASE schema \in {ECDSAwithSHA224, ECDSAwithSHA256, ECDSAwithSHA384,
                     ECDSAwithSHA512, ECDSAwithSHA3_224, ECDSAwithSHA3_256,
                     ECDSAwithSHA3_384, ECDSAwithSHA3_512}
            -> computeEcDSASignature(k, hash, r, s)
      [] schema = EDDSAwithSHA512 -> computeEdDSASignature(k, hash, r, s)
      [] schema = SM2withSM3 -> computeSM2Signature(k, hash, r, s)
      [] OTHER -> [status |-> UnsupportedSchema, sig |-> <<>>, signer |-> ""]

computeSignature(k, hash, schema, r, s) ==
    CASE schema \in {ECDSAwithSHA224, ECDSAwithSHA256, ECDSAwithSHA384,
                     ECDSAwithSHA512, ECDSAwithSHA3_224, ECDSAwithSHA3_256,
                     ECDSAwithSHA3_384, ECDSAwithSHA3_512, ECDSAwithRIPEMD160}
            -> computeEcDSASignature(k, hash, r, s)
      [] schema = EDDSAwithSHA512 -> computeEdDSASignature(k, hash, r, s)
      [] schema = SM2withSM3 -> computeSM2Signature(k, hash, r, s)
      [] OTHER -> [status |-> UnsupportedSchema, sig |-> <<>>, signer |-> ""]

\* Variant of sign: without the isSchemaSupported test.
signUnvalidated(k, msg, schemaArg, publicKeyId, r, s) ==
    LET schema == IF schemaArg = Undefined
                  THEN defaultSchema(k.algorithm) ELSE schemaArg
        hash == computeHash(msg, schema)
        signed == computeSignature(k, hash, schema, r, s)
    IN  [status |-> signed.status, self |-> k, schema |-> schema,
         sig |-> signed.sig, signer |-> signed.signer,
         publicKeyId |-> IF signed.status = "ok" THEN publicKeyId ELSE "",
         trace |-> <<"computeHash", "computeSignature">>]

\* sign(msg, schema?, publicKeyId?); r, s: the library's signature numbers
sign(k, msg, schemaArg, publicKeyId, r, s) ==
    LET schema == IF schemaArg = Undefined
                  THEN defaultSchema(k.algorithm) ELSE schemaArg
    IN  IF ~isSchemaSupported(k, schema)
        THEN [status |-> SchemaMismatch, self |-> k,
              schema |-> schema, sig |-> <<>>,
              signer |-> "", publicKeyId |-> "",
              trace |-> <<"isSchemaSupported">>]
        ELSE LET hash == computeHash(msg, schema)
                 signed == computeSignature(k, hash, schema, r, s)
             IN  [status |-> signed.status, self |-> k, schema |-> schema,
                  sig |-> signed.sig, signer |-> signed.signer,
                  publicKeyId |-> IF signed.status = "ok"
                                  THEN publicKeyId ELSE "",
                  trace |-> <<"isSchemaSupported", "computeHash",
                              "computeSignature">>]

(***************************************************************************)
(* State.                                                                  *)
(*   values  SignatureScheme.values                                        *)
(*   heap    the PrivateKey objects constructed so far, by identity        *)
(*   origin  for each of them, the call that constructed it and the object *)
(*           as constructed                                                *)
(*   last    the last call made: its arguments, what it called and what    *)
(*           it returned or threw                                          *)
(***************************************************************************)
NoCall ==
    [op |-> "none", self |-> 0, status |-> "ok", ret |-> 0, trace |-> <<>>,
     hex |-> 0, arg |-> "", schema |-> 0, pw |-> "", pub |-> NoPub,
     checked |-> <<>>, r |-> <<>>, s |-> <<>>, sig |-> <<>>, signer |-> "",
     publicKeyId |-> ""]

\* TxSender: no call of sendTxWithSocket made, no WebSocket constructed.
\* log lists, in order, the events delivered to the socket and what the
\* handlers and the caller's callback did.
NoSocket ==
    [called |-> FALSE, readyState |-> "none", param |-> "",
     callback |-> "undefined", events |-> 0, log |-> <<>>]

\* RestClient: no request made
NoRequest == [op |-> "none", base |-> "", hexData |-> "",
              preExec |-> "omitted", userId |-> "omitted", param |-> <<>>,
              query |-> <<>>, url |-> <<>>, body |-> <<>>]

Init ==
    /\ values = StaticValues
    /\ heap = <<>>
    /\ origin = <<>>
    /\ last = NoCall
    /\ socket = NoSocket
    /\ request = NoRequest

(***************************************************************************)
(* Calls on SignatureScheme                                                *)
(***************************************************************************)
NewLabels == {"ECDSAwithSHA256", "Custom"}
NewHexes == {1, 11}
NewLabelsJWS == {"ES256", "CUSTOM"}

HexInputs == (0 - 1)..12

LabelInputs ==
    {StaticRecords[i].label : i \in 1..Len(StaticRecords)}
        \cup {"", "ecdsawithsha256", "ECDSAwithSHA", "ES256", "Custom"}

LabelJWSInputs ==
    {StaticRecords[i].labelJWS : i \in 1..Len(StaticRecords)}
        \cup {"", "es256", "ES", "SM2withSM3", "CUSTOM"}

\* new SignatureScheme(label, hex, labelJWS), by any caller
Constructor ==
    /\ Len(values) < Len(StaticRecords) + MaxExtra
    /\ \E label \in NewLabels, hex \in NewHexes, labelJWS \in NewLabelsJWS :
          /\ values' = constructor(values, label, hex, labelJWS)
          /\ last' = [NoCall EXCEPT !.op = "constructor", !.arg = label,
                                    !.hex = hex, !.ret = Len(values')]
    /\ UNCHANGED <<heap, origin, socket, request>>

FromHex ==
    /\ \E hex \in HexInputs :
          LET res == fromHex(values, hex)
          IN  last' = [NoCall EXCEPT !.op = "fromHex", !.hex = hex,
                                     !.status = res.status, !.ret = res.ret]
    /\ UNCHANGED <<values, heap, origin, socket, request>>

FromLabel ==
    /\ \E label \in LabelInputs :
          LET res == fromLabel(values, label)
          IN  last' = [NoCall EXCEPT !.op = "fromLabel", !.arg = label,
                                     !.status = res.status, !.ret = res.ret]
    /\ UNCHANGED <<values, heap, origin, socket, request>>

FromLabelJWS ==
    /\ \E label \in LabelJWSInputs :
          LET res == fromLabelJWS(values, label)
          IN  last' = [NoCall EXCEPT !.op = "fromLabelJWS", !.arg = label,
                                     !.status = res.status, !.ret = res.ret]
    /\ UNCHANGED <<values, heap, origin, socket, request>>

(***************************************************************************)
(* Calls on PrivateKey                                                     *)
(***************************************************************************)
\* (keyType, parameters) arguments of random(); "undefined": omitted
KeySamples ==
    {<<"ECDSA", "p256">>, <<"EDDSA", "ed25519">>, <<"SM2", "sm2p256v1">>,
     <<OtherKeyType, "p256">>, <<"undefined", "undefined">>}

\* what secureRandom may draw
RandomBytes == {1, 2}

Messages == {"0011"}

PublicKeyIds == {"", "did:ont:TA#keys-1"}

\* a signature number of the given byte length (its first byte is not 0)
Scalar(len, byte) == [i \in 1..len |-> byte]

ScalarLengths(preset) == {1, ScalarBytes(preset)}

IsPlain(i) == ~heap[i].key.enc

RandomUpTo(cap) ==
    /\ Len(heap) < cap
    /\ \E kp \in KeySamples, bytes \in RandomBytes :
          /\ heap' = Append(heap, random(kp[1], kp[2], bytes))
          /\ origin' = Append(origin, [by |-> "random", from |-> 0, pw |-> "",
                                       made |-> heap'[Len(heap')]])
          /\ last' = [NoCall EXCEPT !.op = "random", !.arg = kp[1],
                                    !.ret = Len(heap')]
    /\ UNCHANGED <<values, socket, request>>

Random == RandomUpTo(MaxKeys)

RandomToSign == RandomUpTo(MaxSignKeys)

GetPublicKey ==
    /\ \E i \in 1..Len(heap) :
          /\ IsPlain(i)
          /\ \E res \in {getPublicKey(heap[i])} :
                 last' = [NoCall EXCEPT !.op = "getPublicKey", !.self = i,
                                !.status = res.status, !.pub = res.pub]
    /\ UNCHANGED <<values, heap, origin, socket, request>>

Encrypt ==
    /\ Len(heap) < MaxKeys
    /\ \E i \in 1..Len(heap), keyphrase \in Passphrases :
          /\ IsPlain(i)
          /\ \E res \in {encrypt(heap[i], keyphrase)} :
             LET after == [heap EXCEPT ![i] = res.self]
             IN  /\ heap' = IF res.status = "ok"
                            THEN Append(after, res.key) ELSE after
                 /\ origin' = IF res.status = "ok"
                              THEN Append(origin, [by |-> "encrypt", from |-> i,
                                                   pw |-> keyphrase,
                                                   made |-> res.key])
                              ELSE origin
                 /\ last' = [NoCall EXCEPT !.op = "encrypt", !.self = i,
                                !.pw = keyphrase, !.status = res.status,
                                !.trace = res.trace,
                                !.ret = IF res.status = "ok"
                                        THEN Len(heap') ELSE 0]
    /\ UNCHANGED <<values, socket, request>>

Decrypt ==
    /\ Len(heap) < MaxKeys
    /\ \E i \in 1..Len(heap), keyphrase \in Passphrases :
          /\ ~IsPlain(i)
          /\ \E res \in {decrypt(heap[i], keyphrase)} :
             LET after == [heap EXCEPT ![i] = res.self]
             IN  /\ heap' = IF res.status = "ok"
                            THEN Append(after, res.key) ELSE after
                 /\ origin' = IF res.status = "ok"
                              THEN Append(origin, [by |-> "decrypt", from |-> i,
                                                   pw |-> keyphrase,
                                                   made |-> res.key])
                              ELSE origin
                 /\ last' = [NoCall EXCEPT !.op = "decrypt", !.self = i,
                                !.pw = keyphrase, !.status = res.status,
                                !.trace = res.trace, !.checked = res.checked,
                                !.ret = IF res.status = "ok"
                                        THEN Len(heap') ELSE 0]
    /\ UNCHANGED <<values, socket, request>>

\* heap[i].sign(msg, schemaArg, publicKeyId), the library's signature
\* numbers being rl and sl bytes long
SignCall(i, msg, schemaArg, publicKeyId, rl, sl) ==
    /\ IsPlain(i)
    /\ \E r \in {Scalar(rl, 171)}, s \in {Scalar(sl, 205)} :
       \E res \in {sign(heap[i], msg, schemaArg, publicKeyId, r, s)} :
       LET ran == res.signer # ""
       IN  /\ heap' = [heap EXCEPT ![i] = res.self]
           /\ last' = [NoCall EXCEPT !.op = "sign", !.self = i,
                              !.arg = msg, !.schema = res.schema,
                              !.hex = schemaArg,
                              !.status = res.status, !.trace = res.trace,
                              !.r = IF ran THEN r ELSE <<>>,
                              !.s = IF ran THEN s ELSE <<>>,
                              !.sig = res.sig, !.signer = res.signer,
                              !.publicKeyId = res.publicKeyId]
    /\ UNCHANGED <<values, origin, socket, request>>

\* sign, over every scheme of the registry and the omitted scheme
Sign ==
    \E i \in 1..Len(heap), msg \in Messages,
       schemaArg \in {Undefined} \cup (1..Len(values)),
       publicKeyId \in PublicKeyIds :
       \E rl \in ScalarLengths(heap[i].parameters),
          sl \in ScalarLengths(heap[i].parameters) :
          SignCall(i, msg, schemaArg, publicKeyId, rl, sl)

\* sign(msg) with the scheme and the public key id omitted
SignDefault ==
    \E i \in 1..Len(heap), msg \in Messages :
       SignCall(i, msg, Undefined, "", ScalarBytes(heap[i].parameters),
                ScalarBytes(heap[i].parameters))

\* constructor arguments: those of a static member again, and new ones
SchemeSamples == {<<"ECDSAwithSHA256", 1, "ES256">>, <<"Custom", 11, "CUSTOM">>}

\* new SignatureScheme(...) by a caller that goes on to sign with it
ConstructorToSign ==
    /\ Len(values) < Len(StaticRecords) + MaxExtra
    /\ \E a \in SchemeSamples :
          /\ values' = constructor(values, a[1], a[2], a[3])
          /\ last' = [NoCall EXCEPT !.op = "constructor", !.arg = a[1],
                                    !.hex = a[2], !.ret = Len(values')]
    /\ UNCHANGED <<heap, origin, socket, request>>

\* heap[i].computeSignature(hash, schema), called as sign calls it or by any
\* other caller, with any scheme object there is
ComputeSignature ==
    /\ \E i \in 1..Len(heap), msg \in Messages, schema \in 1..Len(values) :
          /\ IsPlain(i)
          /\ \E r \in {Scalar(ScalarBytes(heap[i].parameters), 171)},
                s \in {Scalar(ScalarBytes(heap[i].parameters), 205)} :
             \E res \in {computeSignature(heap[i], computeHash(msg, schema),
                                          schema, r, s)} :
                last' = [NoCall EXCEPT !.op = "computeSignature", !.self = i,
                               !.arg = msg, !.schema = schema,
                               !.status = res.status,
                               !.r = IF res.signer # "" THEN r ELSE <<>>,
                               !.s = IF res.signer # "" THEN s ELSE <<>>,
                               !.sig = res.sig, !.signer = res.signer]
    /\ UNCHANGED <<values, heap, origin, socket, request>>

(***************************************************************************)
(* TxSender.sendTxWithSocket and the events of its WebSocket               *)
(***************************************************************************)
crypto == <<values, heap, origin, last>>

Params == {"", "00d1"}

\* the caller's callback: none given, one that keeps the socket it is
\* handed, one that closes the socket it is handed
Callbacks == {"undefined", "keeps", "closes"}

\* event.data of a message event: a string or not, and its content
MessageData ==
    {[type |-> "string", data |-> "{\"Error\":0}"],
     [type |-> "string", data |-> "<html>502</html>"],
     [type |-> "object", data |-> "Blob"]}

Errors == {"ECONNREFUSED"}

\* JSON.parse: the value of a JSON text, a SyntaxError for any other text
JSONparse(text) ==
    IF text = "{\"Error\":0}"
    THEN [status |-> "ok", value |-> "object Error: 0"]
    ELSE [status |-> "SyntaxError", value |-> "null"]

Entry(what, by, err, res, sock) ==
    [what |-> what, by |-> by, err |-> err, res |-> res, sock |-> sock]

Event(what, data) == Entry(what, "socket", "null", data, "null")

sendTxWithSocket(param, callback) ==
    IF param = ""
    THEN [NoSocket EXCEPT !.called = TRUE, !.callback = callback]
    ELSE [NoSocket EXCEPT !.called = TRUE, !.param = param,
                          !.callback = callback, !.readyState = "CONNECTING"]

\* socket.onopen
onopen(sock) ==
    [sock EXCEPT !.log = sock.log \o
        <<Event("open", "null"),
          Entry("send", "sender", "null", sock.param, "null")>>]

\* socket.onmessage; a callback that closes does so with the socket it gets
onmessage(sock, event) ==
    LET parsed == IF event.type = "string" THEN JSONparse(event.data)
                  ELSE [status |-> "ok", value |-> event.data]
        called == <<Entry("callback", "sender", "null", parsed.value,
                          "socket")>>
    IN  IF parsed.status # "ok"
        THEN [sock EXCEPT !.log = sock.log \o
                 <<Event("message", event.data),
                   Entry("throw", "sender", parsed.status, "null", "null")>>]
        ELSE IF sock.callback = "undefined"
        THEN [sock EXCEPT !.log = sock.log \o <<Event("message", event.data)>>]
        ELSE IF sock.callback = "closes"
        THEN [sock EXCEPT !.readyState = "CLOSING",
                 !.log = sock.log \o <<Event("message", event.data)>> \o called
                         \o <<Entry("close", "caller", "null", "null",
                                    "socket")>>]
        ELSE [sock EXCEPT !.log = sock.log \o <<Event("message", event.data)>>
                                 \o called]

\* socket.onerror
onerror(sock, err) ==
    IF sock.callback = "undefined"
    THEN [sock EXCEPT !.log = sock.log \o
             <<Event("error", err),
               Entry("throw", "sender", "TypeError", "null", "null")>>]
    ELSE [sock EXCEPT !.readyState = "CLOSING",
             !.log = sock.log \o
                 <<Event("error", err),
                   Entry("callback", "sender", err, "null", "null"),
                   Entry("close", "sender", "null", "null", "socket")>>]

SendTxWithSocket ==
    /\ ~socket.called
    /\ \E param \in Params, callback \in Callbacks :
          socket' = sendTxWithSocket(param, callback)
    /\ UNCHANGED <<crypto, request>>

\* the connection is established: the open event
OnOpen ==
    /\ socket.readyState = "CONNECTING"
    /\ socket' = onopen([socket EXCEPT !.readyState = "OPEN"])
    /\ UNCHANGED <<crypto, request>>

\* a message arrives on the open socket
OnMessage ==
    /\ socket.readyState = "OPEN"
    /\ socket.events < MaxEvents
    /\ \E event \in MessageData :
          socket' = onmessage([socket EXCEPT !.events = @ + 1], event)
    /\ UNCHANGED <<crypto, request>>

\* the connection fails, before or after it opened, or while it closes
OnError ==
    /\ socket.readyState \in {"CONNECTING", "OPEN", "CLOSING"}
    /\ socket.events < MaxEvents
    /\ \E err \in Errors :
          socket' = onerror([socket EXCEPT !.events = @ + 1], err)
    /\ UNCHANGED <<crypto, request>>

\* the connection ends (the sender sets no onclose handler)
OnClose ==
    /\ socket.readyState \in {"OPEN", "CLOSING"}
    /\ socket' = [socket EXCEPT !.readyState = "CLOSED"]
    /\ UNCHANGED <<crypto, request>>

NextSocket == SendTxWithSocket \/ OnOpen \/ OnMessage \/ OnError \/ OnClose

(***************************************************************************)
(* RestClient.  A Map is the sequence of its <<key, value>> entries in     *)
(* insertion order; a string built by concatenation is the sequence of the *)
(* pieces concatenated.                                                    *)
(***************************************************************************)
Omitted == "omitted"

UrlArgs == {Omitted, "", "http://node:20334"}

DefaultRestUrl == "TEST_ONT_URL.REST_URL"

Url_send_transaction == "UrlConsts.Url_send_transaction"

HexData == {"00d1", "00d2", "00d3", "00d4"}

\* the preExec argument: left out, true or false
PreExecArgs == {Omitted, "true", "false"}

UserIds == {Omitted, "", "alice", "a b&c", "u/1"}

\* encodeURIComponent, on the values used
encodeURIComponent(value) ==
    CASE value = "a b&c" -> "a%20b%26c"
      [] value = "u/1" -> "u%2F1"
      [] OTHER -> value

\* Map.prototype.set: replaces the value of a key in place, else appends
MapSet(m, key, value) ==
    IF \E j \in 1..Len(m) : m[j][1] = key
    THEN [j \in 1..Len(m) |-> IF m[j][1] = key THEN <<key, value>> ELSE m[j]]
    ELSE Append(m, <<key, value>>)

RECURSIVE concatPairs(_)
\* the loop of concatParams: result += `&${key}=${value}`
concatPairs(params) ==
    IF params = <<>> THEN <<>>
    ELSE LET key == params[Len(params)][1]
             raw == params[Len(params)][2]
             value == IF raw # "" THEN encodeURIComponent(raw) ELSE raw
         IN  concatPairs(SubSeq(params, 1, Len(params) - 1))
                 \o <<"&", key, "=", value>>

concatParams(params) ==
    IF Len(params) = 0 THEN <<>>
    ELSE <<"?">> \o Tail(concatPairs(params))

\* the request sendRawTransaction posts; the preExec argument is not read
sendRawTransaction(base, hexData, preExec, userId) ==
    LET param0 == IF userId # Omitted /\ userId # ""
                  THEN MapSet(<<>>, "userid", userId) ELSE <<>>
        param == MapSet(param0, "preExec", "1")
        query == concatParams(param)
    IN  [op |-> "sendRawTransaction", base |-> base, hexData |-> hexData,
         preExec |-> preExec, userId |-> userId, param |-> param,
         query |-> query,
         url |-> <<base, Url_send_transaction>> \o query,
         body |-> <<<<"Action", "sendrawtransaction">>,
                    <<"Version", "v1.0.0">>, <<"Data", hexData>>>>]

\* parameter maps handed to concatParams by its other callers
ParamMaps ==
    {<<>>, <<<<"raw", "1">>>>, <<<<"raw", "">>>>,
     <<<<"userid", "a b&c">>, <<"raw", "1">>>>,
     <<<<"userid", "u/1">>, <<"preExec", "1">>, <<"raw", "1">>>>}

\* new RestClient(url)
NewRestClient ==
    /\ request.base = ""
    /\ \E url \in UrlArgs :
          request' = [NoRequest EXCEPT
              !.base = IF url = Omitted \/ url = "" THEN DefaultRestUrl
                       ELSE url]
    /\ UNCHANGED <<crypto, socket>>

SendRawTransaction ==
    /\ request.base # ""
    /\ \E hexData \in HexData, preExec \in PreExecArgs, userId \in UserIds :
          request' = sendRawTransaction(request.base, hexData, preExec, userId)
    /\ UNCHANGED <<crypto, socket>>

ConcatParams ==
    /\ request.base # ""
    /\ \E params \in ParamMaps :
          request' = [NoRequest EXCEPT !.op = "concatParams",
                                      !.base = request.base, !.param = params,
                                      !.query = concatParams(params)]
    /\ UNCHANGED <<crypto, socket>>

NextRest == NewRestClient \/ SendRawTransaction \/ ConcatParams

NextScheme == Constructor \/ FromHex \/ FromLabel \/ FromLabelJWS

NextKey == Random \/ GetPublicKey \/ Encrypt \/ Decrypt \/ SignDefault

NextSign == RandomToSign \/ Sign

NextDispatch ==
    ConstructorToSign \/ RandomToSign \/ ComputeSignature \/ SignDefault

\* calls on the SignatureScheme registry
SpecScheme == Init /\ [][NextScheme]_vars

\* calls on PrivateKey objects, the registry being as initialised
SpecKey == Init /\ [][NextKey]_vars

\* sign with every argument, on a key of every type
SpecSign == Init /\ [][NextSign]_vars

\* computeSignature with every scheme object, caller-made ones included
SpecDispatch == Init /\ [][NextDispatch]_vars

\* one call of sendTxWithSocket and the events of its socket
SpecSocket == Init /\ [][NextSocket]_vars

\* requests of one RestClient
SpecRest == Init /\ [][NextRest]_vars

(***************************************************************************)
(* Properties                                                              *)
(***************************************************************************)
Statics == 1..Len(StaticRecords)

Supported(i) == heap[i].algorithm \in KeyTypes

\* C1: sign with a scheme whose required KeyType is not the key's throws
\* the scheme-mismatch error before computeHash and computeSignature are
\* reached, and returns no Signature.
C1_MismatchFailsBeforeSigning ==
    (last.op = "sign"
        /\ RequiredKeyType(last.schema) # heap[last.self].algorithm)
    => /\ last.status = SchemaMismatch
       /\ last.trace = <<"isSchemaSupported">>
       /\ last.signer = ""
       /\ last.sig = <<>>

C1_Witness ==
    /\ last.op = "sign"
    /\ last.hex = SM2withSM3
    /\ heap[last.self].algorithm = "ECDSA"
    /\ last.status = SchemaMismatch

\* C2: decrypt returns a key only after checkDecrypted ran on the receiver's
\* key and the candidate's derived public key and did not throw; when the
\* check fails, decrypt throws the decryption error and returns nothing.
C2_DecryptReturnsOnlyChecked ==
    /\ last.op = "decrypt" /\ last.ret # 0
        => /\ last.status = "ok"
           /\ last.trace[Len(last.trace)] = "checkDecrypted"
           /\ last.checked = <<heap[last.self].key,
                               getPublicKey(heap[last.ret]).pub.key>>
           /\ heap[last.self].key.anchor = last.checked[2]
    /\ last.op = "decrypt" /\ Len(last.checked) = 2
          /\ last.checked[1].anchor # last.checked[2]
        => /\ last.status = DecryptoError
           /\ last.ret = 0
    /\ \A j \in 1..Len(heap) :
          origin[j].by = "decrypt"
            => heap[origin[j].from].key.anchor
                  = getPublicKey(heap[j]).pub.key

C2_Witness ==
    /\ last.op = "decrypt"
    /\ last.ret = Len(heap)
    /\ last.checked = <<heap[last.self].key,
                        getPublicKey(heap[last.ret]).pub.key>>

\* C3: for a key k of a KeyType of the enumeration and a passphrase pw,
\* k.encrypt(pw) succeeds, and decrypting its result with pw succeeds and
\* yields a key whose raw key equals k.key.
C3_RoundTrip ==
    /\ last.op = "encrypt" /\ Supported(last.self)
        => last.status = "ok" /\ last.ret # 0
    /\ (last.op = "decrypt" /\ origin[last.self].by = "encrypt"
          /\ origin[last.self].pw = last.pw)
        => /\ last.status = "ok"
           /\ last.ret # 0
           /\ heap[last.ret].key = heap[origin[last.self].from].key

C3_Witness ==
    /\ last.op = "decrypt"
    /\ last.status = "ok"
    /\ origin[last.self].by = "encrypt"
    /\ origin[origin[last.self].from].by = "random"
    /\ last.ret # origin[last.self].from
    /\ heap[last.ret].key = heap[origin[last.self].from].key

\* C4: decrypting a key encrypted under pw with another passphrase throws
\* the decryption error and returns no key: every key decrypt returned was
\* decrypted with the passphrase its ciphertext was encrypted under.
C4_WrongPassphraseFails ==
    /\ (last.op = "decrypt" /\ origin[last.self].by = "encrypt"
          /\ origin[last.self].pw # last.pw)
        => /\ last.status = DecryptoError
           /\ last.ret = 0
    /\ \A j \in 1..Len(heap) :
          (origin[j].by = "decrypt" /\ origin[origin[j].from].by = "encrypt")
            => /\ origin[j].pw = origin[origin[j].from].pw
               /\ heap[j].key = heap[origin[origin[j].from].from].key

C4_Witness ==
    /\ last.op = "decrypt"
    /\ origin[last.self].by = "encrypt"
    /\ origin[last.self].pw = "123456"
    /\ last.pw = "1234567"
    /\ last.status = DecryptoError
    /\ Len(last.checked) = 2

C6_LookupFailsWithoutExactMatch ==
    /\ last.op = "fromHex"
        => IF \E i \in 1..Len(values) : values[i].hex = last.hex
           THEN last.status = "ok" /\ values[last.ret].hex = last.hex
           ELSE last.status = EnumNotFound /\ last.ret = Undefined
    /\ last.op = "fromLabel"
        => IF \E i \in 1..Len(values) : values[i].label = last.arg
           THEN last.status = "ok" /\ values[last.ret].label = last.arg
           ELSE last.status = EnumNotFound /\ last.ret = Undefined
    /\ last.op = "fromLabelJWS"
        => IF \E i \in 1..Len(values) : values[i].labelJWS = last.arg
           THEN last.status = "ok" /\ values[last.ret].labelJWS = last.arg
           ELSE last.status = EnumNotFound /\ last.ret = Undefined

C6_Witness ==
    /\ last.op = "fromHex"
    /\ last.hex = 12
    /\ Len(values) > Len(StaticRecords)
    /\ last.status = EnumNotFound
    /\ last.ret = Undefined

\* C7: for each of the 11 static schemes s, fromHex(s.hex), fromLabel(s.label)
\* and fromLabelJWS(s.labelJWS) return s itself; the codes, the labels and
\* the JWS labels of the 11 are pairwise distinct; fromHex(1) is the record
\* labelled "ECDSAwithSHA256" / "ES256" and fromLabel("SM2withSM3") has
\* code 9.
C7_LookupsInvertFields ==
    /\ \A i \in Statics :
          /\ fromHex(values, values[i].hex) = [status |-> "ok", ret |-> i]
          /\ fromLabel(values, values[i].label) = [status |-> "ok", ret |-> i]
          /\ fromLabelJWS(values, values[i].labelJWS)
                = [status |-> "ok", ret |-> i]
    /\ \A i, j \in Statics :
          i # j => /\ values[i].hex # values[j].hex
                   /\ values[i].label # values[j].label
                   /\ values[i].labelJWS # values[j].labelJWS
    /\ fromHex(values, 1).ret = ECDSAwithSHA256
    /\ values[fromHex(values, 1).ret].label = "ECDSAwithSHA256"
    /\ values[fromHex(values, 1).ret].labelJWS = "ES256"
    /\ fromLabel(values, "SM2withSM3").ret = SM2withSM3
    /\ values[fromLabel(values, "SM2withSM3").ret].hex = 9
    /\ \A i \in Statics :
          /\ last.op = "fromHex" /\ last.hex = values[i].hex => last.ret = i
          /\ last.op = "fromLabel" /\ last.arg = values[i].label
                => last.ret = i
          /\ last.op = "fromLabelJWS" /\ last.arg = values[i].labelJWS
                => last.ret = i

C7_Witness ==
    /\ last.op = "fromLabel"
    /\ last.arg = "ECDSAwithSHA256"
    /\ last.ret = ECDSAwithSHA256
    /\ Len(values) > Len(StaticRecords)
    /\ values[Len(values)].label = "ECDSAwithSHA256"

\* C8: after any sequence of calls of the constructor and the three
\* lookups, the registry holds exactly the 11 static records, in their
\* order.
C8_RegistryNeverMutated == values = StaticValues

\* C9: no call changes a PrivateKey that exists (every object is as it was
\* constructed); encrypt and decrypt return a new object, with the
\* receiver's algorithm and parameters.
C9_PrivateKeyImmutable ==
    /\ Len(origin) = Len(heap)
    /\ \A j \in 1..Len(heap) :
          /\ heap[j] = origin[j].made
          /\ origin[j].by \in {"encrypt", "decrypt"}
                => /\ origin[j].from < j
                   /\ heap[j].algorithm = heap[origin[j].from].algorithm
                   /\ heap[j].parameters = heap[origin[j].from].parameters
    /\ (last.op \in {"encrypt", "decrypt"} /\ last.status = "ok")
        => /\ last.ret = Len(heap)
           /\ last.ret # last.self
           /\ origin[last.ret].from = last.self
    /\ (last.op \in {"encrypt", "decrypt"} /\ last.status # "ok")
        => last.ret = 0

C9_Witness ==
    /\ last.op = "decrypt"
    /\ last.status = "ok"
    /\ heap[last.self].key.enc
    /\ heap[last.self] = origin[last.self].made
    /\ heap[last.ret].parameters = "ed25519"
    /\ heap[last.ret].key # heap[last.self].key

\* What getPublicKey returned or threw, by the receiver's KeyType.
C10_Dispatch ==
    last.op = "getPublicKey"
    => IF Supported(last.self)
       THEN /\ last.status = "ok"
            /\ last.pub.key # NoPub.key
            /\ last.pub.algorithm = heap[last.self].algorithm
            /\ last.pub.parameters = heap[last.self].parameters
       ELSE /\ last.status = UnsupportedSchema
            /\ last.pub = NoPub

\* A call of getPublicKey that follows one on the same key returns the same.
C10_Repeatable ==
    (last.op = "getPublicKey" /\ last'.op = "getPublicKey"
        /\ last'.self = last.self)
    => (last'.pub = last.pub /\ last'.status = last.status)

EcDSALabels ==
    {"ECDSAwithSHA224", "ECDSAwithSHA256", "ECDSAwithSHA384",
     "ECDSAwithSHA512", "ECDSAwithSHA3-224", "ECDSAwithSHA3-256",
     "ECDSAwithSHA3-384", "ECDSAwithSHA3-512", "ECDSAwithRIPEMD160"}

\* C11: computeSignature runs exactly one signer for each of the 11 static
\* schemes: the ECDSA signer for every ECDSAwith* scheme, the EdDSA signer
\* for EDDSAwithSHA512 and the SM2 signer for SM2withSM3, that is, the
\* signer of the KeyType the scheme requires (the key's own, when sign
\* called it); it throws 'Unsupported signature schema.' only for a scheme
\* object that is none of the 11.
C11_DispatchCoversRegistry ==
    /\ last.op = "computeSignature"
        => IF last.schema \in Statics
           THEN /\ last.status # UnsupportedSchema
                /\ last.signer \in KeyTypes
                /\ last.signer = RequiredKeyType(last.schema)
                /\ values[last.schema].label \in EcDSALabels
                      <=> last.signer = "ECDSA"
                /\ values[last.schema].label = "EDDSAwithSHA512"
                      <=> last.signer = "EDDSA"
                /\ values[last.schema].label = "SM2withSM3"
                      <=> last.signer = "SM2"
           ELSE /\ last.status = UnsupportedSchema
                /\ last.signer = ""
    /\ (last.op = "sign" /\ last.status # SchemaMismatch)
        => /\ last.schema \in Statics
           /\ last.status # UnsupportedSchema
           /\ last.signer = heap[last.self].algorithm
    /\ \A schema \in Statics, i \in 1..Len(heap) :
          computeSignature(heap[i], computeHash("0011", schema), schema,
                           <<1>>, <<1>>).signer = RequiredKeyType(schema)

C11_Witness ==
    /\ last.op = "computeSignature"
    /\ last.schema = ECDSAwithRIPEMD160
    /\ last.signer = "ECDSA"
    /\ last.status = "ok"
    /\ Len(values) > Len(StaticRecords)
    /\ values[Len(values)].label = "ECDSAwithSHA256"

\* positions of the log
Log == 1..Len(socket.log)

\* the payload is sent only in response to an open event, and no socket is
\* made for an empty param
C12_SendOnlyOnOpen ==
    /\ \A j \in Log :
          socket.log[j].what = "send"
             => /\ j > 1
                /\ socket.log[j - 1].what = "open"
                /\ socket.log[j].res = socket.param
    /\ (socket.called /\ socket.param = "")
          => (socket.readyState = "none" /\ socket.log = <<>>)

\* the sender closes the socket only after an error event and after the
\* callback got (err, null, null)
C12_CloseOnlyAfterError ==
    \A j \in Log :
       (socket.log[j].what = "close" /\ socket.log[j].by = "sender")
          => /\ j > 2
             /\ socket.log[j - 2].what = "error"
             /\ socket.log[j - 1] = Entry("callback", "sender",
                                          socket.log[j - 2].res, "null", "null")

\* on a message event the callback gets (null, res, socket) and the sender
\* does not close the socket
C12_MessageHandsSocket ==
    \A j \in Log :
       (socket.log[j].what = "message" /\ socket.callback # "undefined")
          => /\ j < Len(socket.log)
             /\ socket.log[j + 1].what = "callback"
             /\ socket.log[j + 1].err = "null"
             /\ socket.log[j + 1].sock = "socket"
             /\ \A m \in Log :
                   (m > j /\ socket.log[m].what = "close"
                          /\ socket.log[m].by = "sender")
                      => \E e \in (j + 1)..(m - 1) : socket.log[e].what = "error"

\* C12: in sendTxWithSocket, whatever the order of open, message and error
\* events, the payload is sent only on the open event (and no socket is made
\* for an empty param), the sender closes the socket only after an error event
\* and after calling callback(err, null, null), and on every message event
\* the socket stays open and the callback is handed it as third argument.
C12_SocketProtocol ==
    /\ C12_SendOnlyOnOpen
    /\ C12_CloseOnlyAfterError
    /\ C12_MessageHandsSocket

\* the n-th pair of a query is the pieces 4 n - 2 (key), 4 n - 1, 4 n (value)
HasPair(query, key, value) ==
    \E j \in 1..Len(query) :
       /\ j % 4 = 2
       /\ j + 2 <= Len(query)
       /\ query[j] = key
       /\ query[j + 1] = "="
       /\ query[j + 2] = value

HasKey(query, key) ==
    \E j \in 1..Len(query) : j % 4 = 2 /\ query[j] = key

\* the query carries preExec=1 exactly when the preExec argument is true
C13_PreExecOnlyWhenTrue ==
    request.op = "sendRawTransaction"
       => (HasKey(request.query, "preExec") <=> request.preExec = "true")

\* the query carries userid=<encoded userId>, and only when userId is given
C13_UserIdOnlyWhenGiven ==
    request.op = "sendRawTransaction"
       => IF request.userId \in {Omitted, ""}
          THEN ~HasKey(request.query, "userid")
          ELSE HasPair(request.query, "userid",
                       encodeURIComponent(request.userId))

\* concatParams: '' for the empty map, else '?' and the pairs joined by '&'
C13_ConcatParams ==
    request.op \in {"concatParams", "sendRawTransaction"}
       => IF request.param = <<>> THEN request.query = <<>>
          ELSE /\ Len(request.query) = 4 * Len(request.param)
               /\ request.query[1] = "?"
               /\ \A n \in 1..Len(request.param) :
                     /\ request.query[4 * n - 2] = request.param[n][1]
                     /\ request.query[4 * n - 1] = "="
                     /\ request.query[4 * n]
                           = encodeURIComponent(request.param[n][2])
                     /\ n > 1 => request.query[4 * n - 3] = "&"

\* C13: sendRawTransaction builds its request from its arguments: the query
\* carries preExec=1 only when the preExec argument is true (not when it is
\* false or omitted), carries userid=<encoded userId> only when userId is
\* given, and concatParams returns '' for an empty map and otherwise '?'
\* followed by the key=value pairs joined by '&'.
C13_RequestFromArguments ==
    /\ C13_PreExecOnlyWhenTrue
    /\ C13_UserIdOnlyWhenGiven
    /\ C13_ConcatParams

====
